---- MODULE Spec2Model ----
(***************************************************************************)
(* Model of the 7Semi SCD4x driver (SCD4x_7Semi, 7Semi_SCD4x.cpp): the     *)
(* CRC-8 engine, the transaction framer (txCommand / readNData), the       *)
(* facade operations built on them, an I2C transport with a device behind  *)
(* it, and the millisecond clock the driver's delays and timeout read.     *)
(***************************************************************************)
EXTENDS Integers, Sequences, FiniteSets, TLC

VARIABLES
  pc,       \* position of the running facade call ("idle": none yet, "done": returned)
  op,       \* name of the running / last facade operation
  arg,      \* its arguments
  clock,    \* millis(): 32-bit millisecond counter
  address,  \* SCD4x_7Semi::address, the I2C address the driver talks to
  mode,     \* the sensor's own mode: "Idle", "Periodic", "LowPower"
  mode0,    \* the sensor's mode when the running call was entered
  bus,      \* bus transactions of the running call, in order
  rx,       \* the transport's receive side after requestFrom
  t0,       \* readNData's local t0
  out,      \* the buffer readNData writes words into
  val,      \* output arguments of the facade call as left at return
  ret,      \* value returned by the call
  lowFail,  \* lower-layer failures that happened during the call
  calls,    \* calls the running SCD40 call has made into SensirionI2cScd4x, in order
  waited    \* ms that have really passed since readNData sampled t0

vars ==
  <<pc, op, arg, clock, address, mode, mode0, bus, rx, t0, out, val, ret, lowFail, calls,
    waited>>

-----------------------------------------------------------------------------
(* Bounds of the model *)

\* delay(ms) returns after ms .. ms + MaxJitter milliseconds
MaxJitter == 1
\* readNData is exercised with 1 .. MaxNWords words
MaxNWords == 2
\* txCommand / writeCommand are exercised with 0 .. MaxPayload payload words
MaxPayload == 2

-----------------------------------------------------------------------------
(* Fixed-width integer arithmetic *)

U8(x) == x % 256

U16(x) == x % 65536

\* A uint32_t is kept as two 16-bit halves <<high, low>>.
U32(high, low) == <<high % 65536, low % 65536>>

\* x + n in uint32_t, for a small n >= 0
U32Add(x, n) == U32(x[1] + ((x[2] + n) \div 65536), x[2] + n)

\* a - b in uint32_t (unsigned: the difference wraps)
U32Sub(a, b) ==
  IF a[2] >= b[2]
    THEN U32(a[1] - b[1] + 65536, a[2] - b[2])
    ELSE U32(a[1] - b[1] - 1 + 65536, a[2] - b[2] + 65536)

\* x > n and x >= n for a uint32_t x and a small n
U32Gt(x, n) == x[1] > 0 \/ x[2] > n

U32Ge(x, n) == x[1] > 0 \/ x[2] >= n

RECURSIVE Xor(_, _, _)
\* bitwise exclusive-or of the low n bits of a and b
Xor(a, b, n) ==
  IF n = 0 THEN 0
  ELSE (((a % 2) + (b % 2)) % 2) + 2 * Xor(a \div 2, b \div 2, n - 1)

Byte == 0 .. 255

-----------------------------------------------------------------------------
(* CRC-8 engine *)

\* the bit loop with the polynomial mistyped as 0x13
CrcStepPoly13(crc) ==
  IF (crc \div 128) % 2 = 1 THEN U8(Xor(crc * 2, 19, 9)) ELSE U8(crc * 2)

\* one iteration of the bit loop:
\*   crc = (crc & 0x80) ? (uint8_t)((crc << 1) ^ 0x31) : (uint8_t)(crc << 1)
CrcStep(crc) ==
  IF (crc \div 128) % 2 = 1 THEN U8(Xor(crc * 2, 49, 9)) ELSE U8(crc * 2)

RECURSIVE CrcLoop(_, _)
\* for (int i = 0; i < 8; ++i) crc = ...
CrcLoop(crc, i) == IF i = 0 THEN crc ELSE CrcLoop(CrcStep(crc), i - 1)

\* uint8_t crc = 0xFF; crc ^= b0; bit loop; crc ^= b1; bit loop; return crc;
Crc8Of(b0, b1) ==
  LET c0 == Xor(255, b0, 8)
      c1 == CrcLoop(c0, 8)
      c2 == Xor(c1, b1, 8)
  IN  CrcLoop(c2, 8)

\* data bytes of the words the modelled sensor answers with
WirePairs ==
  { <<18, 52>>, <<86, 120>>, <<154, 188>>, <<146, 52>>, <<0, 0>>, <<255, 255>> }

\* Crc8Of on those, computed once
Crc8Wire == [p \in WirePairs |-> Crc8Of(p[1], p[2])]

crc8(b0, b1) ==
  IF <<b0, b1>> \in WirePairs THEN Crc8Wire[<<b0, b1>>] ELSE Crc8Of(b0, b1)

\* checkCrc comparing only the low seven bits of the CRC
checkCrcLow7(p, word) ==
  IF crc8(p[1], p[2]) % 128 # p[3] % 128
    THEN [ok |-> FALSE, word |-> word]
    ELSE [ok |-> TRUE, word |-> U16(p[1] * 256) + p[2]]

\* checkCrc(p, word): [ok, word]; word is written only when the CRC matches
checkCrc(p, word) ==
  LET b0 == p[1]
      b1 == p[2]
      c  == p[3]
  IN  IF crc8(b0, b1) # c
        THEN [ok |-> FALSE, word |-> word]
        ELSE [ok |-> TRUE, word |-> U16(b0 * 256) + b1]

-----------------------------------------------------------------------------
(* Command catalog *)

SendOps ==
  { "startPeriodicMeasurement", "startLowPowerPeriodicMeasurement",
    "stopPeriodicMeasurement", "measureSingleShot", "measureSingleShotRhtOnly",
    "persistSettings", "factoryReset", "reInit", "powerDown", "wakeUp" }

WriteOps ==
  { "setTemperatureOffset", "setSensorAltitude", "setAmbientPressureRaw",
    "setAutomaticSelfCalibrationEnabled", "setAutomaticSelfCalibrationTarget",
    "setAutomaticSelfCalibrationInitialPeriod",
    "setAutomaticSelfCalibrationStandardPeriod" }

ReadWordOps ==
  { "getDataReadyStatus", "getTemperatureOffset", "getSensorAltitude",
    "getAmbientPressureRaw", "getAutomaticSelfCalibrationEnabled",
    "getAutomaticSelfCalibrationTarget",
    "getAutomaticSelfCalibrationInitialPeriod",
    "getAutomaticSelfCalibrationStandardPeriod", "getSensorVariantRaw",
    "performSelfTest" }

SpecialOps ==
  { "begin", "readMeasurement", "readSerialNumber", "performForcedRecalibration" }

\* the facade of SCD4x_7Semi
FacadeOps == SendOps \cup WriteOps \cup ReadWordOps \cup SpecialOps

\* the framer's own entry points
FramerOps == { "sendCommand", "writeCommand", "readNData" }

Ops == FacadeOps \cup FramerOps

\* opcode of the command a facade operation sends (first)
CommandId(o) ==
  CASE o = "startPeriodicMeasurement" -> 8625                      \* 0x21B1
    [] o = "startLowPowerPeriodicMeasurement" -> 8620              \* 0x21AC
    [] o = "stopPeriodicMeasurement" -> 16262                      \* 0x3F86
    [] o = "measureSingleShot" -> 8605                             \* 0x219D
    [] o = "measureSingleShotRhtOnly" -> 8598                      \* 0x2196
    [] o = "persistSettings" -> 13845                              \* 0x3615
    [] o = "factoryReset" -> 13874                                 \* 0x3632
    [] o = "reInit" -> 13894                                       \* 0x3646
    [] o = "powerDown" -> 14048                                    \* 0x36E0
    [] o = "wakeUp" -> 14070                                       \* 0x36F6
    [] o = "setTemperatureOffset" -> 9245                          \* 0x241D
    [] o = "setSensorAltitude" -> 9255                             \* 0x2427
    [] o = "setAmbientPressureRaw" -> 57344                        \* 0xE000
    [] o = "setAutomaticSelfCalibrationEnabled" -> 9238            \* 0x2416
    [] o = "setAutomaticSelfCalibrationTarget" -> 9274             \* 0x243A
    [] o = "setAutomaticSelfCalibrationInitialPeriod" -> 9285      \* 0x2445
    [] o = "setAutomaticSelfCalibrationStandardPeriod" -> 9294     \* 0x244E
    [] o = "getDataReadyStatus" -> 58552                           \* 0xE4B8
    [] o = "getTemperatureOffset" -> 8984                          \* 0x2318
    [] o = "getSensorAltitude" -> 8994                             \* 0x2322
    [] o = "getAmbientPressureRaw" -> 57344                        \* 0xE000
    [] o = "getAutomaticSelfCalibrationEnabled" -> 8979            \* 0x2313
    [] o = "getAutomaticSelfCalibrationTarget" -> 9023             \* 0x233F
    [] o = "getAutomaticSelfCalibrationInitialPeriod" -> 9024      \* 0x2340
    [] o = "getAutomaticSelfCalibrationStandardPeriod" -> 9035     \* 0x234B
    [] o = "getSensorVariantRaw" -> 8239                           \* 0x202F
    [] o = "performSelfTest" -> 13881                              \* 0x3639
    [] o = "begin" -> 14070                                        \* wakeUp first
    [] o = "readMeasurement" -> 60421                              \* 0xEC05
    [] o = "readSerialNumber" -> 13954                             \* 0x3682
    [] o = "performForcedRecalibration" -> 13871                   \* 0x362F

-----------------------------------------------------------------------------
(* The sensor behind the bus *)

\* the 7-bit address the SCD4x answers on (0x62)
SensorAddr == 98

\* addresses begin() is called with
Addrs == { SensorAddr, SensorAddr + 1 }

\* a write transaction is acknowledged or not; nothing answers on another address
DeviceAcks(addr) == IF addr = SensorAddr THEN BOOLEAN ELSE {FALSE}

\* the sensor's mode after it has acknowledged command cmd
DeviceAccept(m, cmd) ==
  CASE cmd = CommandId("startPeriodicMeasurement") -> "Periodic"
    [] cmd = CommandId("startLowPowerPeriodicMeasurement") -> "LowPower"
    [] cmd = CommandId("stopPeriodicMeasurement") -> "Idle"
    [] OTHER -> m

Modes == { "Idle", "Periodic", "LowPower" }

-----------------------------------------------------------------------------
(* Clock *)

\* unsigned 32-bit difference, as in millis() - t0
Elapsed(now, since) == U32Sub(now, since)

\* delay(ms): the clock has advanced by ms plus a jitter j
delay(ms, j) == U32Add(clock, ms + j)

Jitters == 0 .. MaxJitter

\* clock values a call may start at (one of them 50 ms before the counter wraps)
StartClocks == { U32(0, 0), U32(65535, 65536 - 50) }

-----------------------------------------------------------------------------
(* Transaction framer: write side *)

RECURSIVE TxPayload(_, _)
\* for (size_t i = 0; i < nwords; ++i) { write(b0); write(b1); write(c); }
TxPayload(words, i) ==
  IF i > Len(words) THEN << >>
  ELSE LET b0 == U8(words[i] \div 256)
           b1 == U8(words[i] % 256)
           c  == crc8(b0, b1)
       IN  <<b0, b1, c>> \o TxPayload(words, i + 1)

\* txCommand sending the command low byte first
txCommandLsbFirst(cmd, words) ==
  <<U8(cmd % 256), U8(cmd \div 256)>> \o TxPayload(words, 1)

\* the bytes txCommand writes between beginTransmission and endTransmission
txCommand(cmd, words) ==
  <<U8(cmd \div 256), U8(cmd % 256)>> \o TxPayload(words, 1)

\* a write transaction on the bus, as the transport saw it
WriteEvent(cmd, words, ack) ==
  [ kind |-> "write", addr |-> address, bytes |-> txCommand(cmd, words),
    ack |-> ack, t |-> clock, count |-> 0 ]

\* i2c->requestFrom(address, (uint8_t)nbytes)
RequestEvent(nbytes) ==
  [ kind |-> "request", addr |-> address, bytes |-> << >>,
    ack |-> TRUE, t |-> clock, count |-> U8(nbytes) ]

\* sendCommand(cmd) == txCommand(cmd, nullptr, 0)
sendCommand(cmd, ack) == WriteEvent(cmd, << >>, ack)

\* writeCommand(cmd, words, nwords) == txCommand(cmd, words, nwords)
writeCommand(cmd, words, ack) == WriteEvent(cmd, words, ack)

\* what the sensor does with a write transaction
ModeAfter(ev) ==
  IF ev.ack /\ ev.addr = SensorAddr /\ Len(ev.bytes) >= 2
    THEN DeviceAccept(mode, ev.bytes[1] * 256 + ev.bytes[2])
    ELSE mode

-----------------------------------------------------------------------------
(* Transaction framer: read side *)

\* an output word nobody has written yet
Empty == [w |-> FALSE, v |-> 0]

Slots(n) == [i \in 1 .. n |-> Empty]

Written(x) == [w |-> TRUE, v |-> x]

\* words the sensor answers with: 0x1234, 0x5678, 0x9ABC and the two ends of
\* the 16-bit range
RxWords == { 4660, 22136, 39612, 0, 65535 }

\* a word as the sensor puts it on the wire: [MSB, LSB, CRC]
Group(x) == <<x \div 256, x % 256, crc8(x \div 256, x % 256)>>

GoodGroups == { Group(x) : x \in RxWords }

\* groups damaged on the wire: a flipped CRC bit, a flipped data bit
BadGroups ==
  { <<18, 52, Xor(crc8(18, 52), 1, 8)>>, <<146, 52, crc8(18, 52)>> }

Groups == GoodGroups \cup BadGroups

RECURSIVE Flatten(_, _)
Flatten(gs, i) == IF i > Len(gs) THEN << >> ELSE gs[i] \o Flatten(gs, i + 1)

\* the byte streams the transport can hand over for an n-word read
Responses(n) == { Flatten(gs, 1) : gs \in [1 .. n -> Groups] }

\* times (ms after the request) at which the response bytes become available
Latencies == { 0, 1, 100, 101, 200 }

\* what the transport does with a request for need bytes: the bytes arrive after
\* lat ms, too few of them arrive, or none ever do (data: the bytes the driver
\* has read out so far)
RxChoices(need) ==
  { [arrives |-> TRUE, lat |-> l, count |-> need, t |-> clock, data |-> << >>] :
      l \in Latencies }
    \cup { [arrives |-> TRUE, lat |-> 0, count |-> need - 1, t |-> clock, data |-> << >>],
           [arrives |-> FALSE, lat |-> 0, count |-> 0, t |-> clock, data |-> << >>] }

NoRx == [arrives |-> FALSE, lat |-> 0, count |-> 0, t |-> U32(0, 0), data |-> << >>]

\* the receive side r once the driver has read the bytes raw out of it
ReadOut(r, raw) == [r EXCEPT !.data = raw]

\* i2c->available() at time now, r being the transport's receive side
AvailableAt(r, now) ==
  IF r.arrives /\ U32Ge(Elapsed(now, r.t), r.lat) THEN r.count ELSE 0

available == AvailableAt(rx, clock)

RECURSIVE ReadLoopLsbFirst(_, _, _, _)
\* the word loop taking the first byte of a group as the low byte of the word
ReadLoopLsbFirst(resp, buf, i, n) ==
  IF i > n THEN [ok |-> TRUE, out |-> buf]
  ELSE LET b0  == resp[3 * (i - 1) + 1]
           b1  == resp[3 * (i - 1) + 2]
           crc == resp[3 * (i - 1) + 3]
       IN  IF crc8(b0, b1) # crc
             THEN [ok |-> FALSE, out |-> buf]
             ELSE ReadLoopLsbFirst(resp, [buf EXCEPT ![i] = Written(U16(b1 * 256) + b0)],
                                   i + 1, n)

RECURSIVE ReadLoop(_, _, _, _)
\* for (i = 0; i < nwords; ++i) { read b0, b1, crc; check; out[i] = word; }
ReadLoop(resp, buf, i, n) ==
  IF i > n THEN [ok |-> TRUE, out |-> buf]
  ELSE LET b0  == resp[3 * (i - 1) + 1]
           b1  == resp[3 * (i - 1) + 2]
           crc == resp[3 * (i - 1) + 3]
       IN  IF crc8(b0, b1) # crc
             THEN [ok |-> FALSE, out |-> buf]
             ELSE ReadLoop(resp, [buf EXCEPT ![i] = Written(U16(b0 * 256) + b1)],
                           i + 1, n)

\* the three checkCrc calls of readMeasurement / readSerialNumber on raw[9]
CheckThree(raw) ==
  LET c0 == checkCrc(SubSeq(raw, 1, 3), 0)
      c1 == checkCrc(SubSeq(raw, 4, 6), 0)
      c2 == checkCrc(SubSeq(raw, 7, 9), 0)
  IN  [ok |-> c0.ok /\ c1.ok /\ c2.ok, w0 |-> c0.word, w1 |-> c1.word, w2 |-> c2.word]

-----------------------------------------------------------------------------
(* Delays and the timeout of the driver, in ms *)

\* readNData without its settle delay
RND_SETTLE_NONE == 1 - 1

\* readNData: delay(1) between the command and the request
RND_SETTLE_MS == 1
\* readMeasurement, readSerialNumber: delay(5)
RM_SETTLE_MS == 5
RSN_SETTLE_MS == 5
\* readNData: the poll gives up when millis() - t0 > 100
RND_TIMEOUT_MS == 100
\* readNData: delay(1) between two polls
RND_POLL_MS == 1
\* performForcedRecalibration: delay(500) before the result is read
FRC_DELAY_MS == 500
\* begin: delay(100) after wakeUp and after reInit, delay(5) after the stop
BEGIN_DELAY_MS == 100
BEGIN_STOP_DELAY_MS == 5

-----------------------------------------------------------------------------
(* Arguments of the calls *)

\* payload words a caller passes to the setters and to writeCommand
ArgWords == { 0, 48879 }

\* opcodes sendCommand / writeCommand / readNData are called with directly
RawCmds == { 16262, 255 }

\* temperature offsets passed to setTemperatureOffset, in 1/1000 degree C
DegCs == { 0, 1500, 20000, 0 - 10000 }

\* uint16_t raw = (uint16_t)((degC / 175.0f) * 65535.0f): the words the conversion
\* can yield. A value below 0 or above 65535 has no defined conversion to uint16_t:
\* the build may saturate it or wrap it.
TempOffsetRaw(mdeg) ==
  IF mdeg >= 0 /\ (mdeg * 65535) \div 175000 <= 65535
    THEN { (mdeg * 65535) \div 175000 }
    ELSE { 0, 65535, U16(65536 - ((((0 - mdeg) * 65535) \div 175000) % 65536)) }

Args(cmd, words, n, addr, want, f) ==
  [cmd |-> cmd, words |-> words, n |-> n, addr |-> addr, want |-> want, f |-> f]

PayloadSeqs == UNION { [1 .. k -> ArgWords] : k \in 0 .. MaxPayload }

\* the argument values operation o is called with
ArgsOf(o) ==
  CASE o \in SendOps -> { Args(CommandId(o), << >>, 0, 0, FALSE, 0) }
    [] o = "setTemperatureOffset" ->
         UNION { { Args(CommandId(o), <<raw>>, 0, 0, FALSE, d) : raw \in TempOffsetRaw(d) } :
                 d \in DegCs }
    [] o = "setAutomaticSelfCalibrationEnabled" ->
         { Args(CommandId(o), <<b>>, 0, 0, FALSE, b) : b \in {0, 1} }
    [] o \in WriteOps \ { "setTemperatureOffset", "setAutomaticSelfCalibrationEnabled" } ->
         { Args(CommandId(o), <<x>>, 0, 0, FALSE, 0) : x \in ArgWords }
    [] o \in ReadWordOps -> { Args(CommandId(o), << >>, 1, 0, FALSE, 0) }
    [] o = "begin" -> { Args(CommandId(o), << >>, 3, a, FALSE, 0) : a \in Addrs }
    [] o \in { "readMeasurement", "readSerialNumber" } ->
         { Args(CommandId(o), << >>, 3, 0, FALSE, 0) }
    [] o = "performForcedRecalibration" ->
         { Args(CommandId(o), <<x>>, 1, 0, want, 0) : x \in ArgWords, want \in BOOLEAN }
    [] o = "sendCommand" -> { Args(c, << >>, 0, 0, FALSE, 0) : c \in RawCmds }
    [] o = "writeCommand" -> { Args(c, ws, 0, 0, FALSE, 0) : c \in RawCmds, ws \in PayloadSeqs }
    [] o = "readNData" ->
         { Args(c, << >>, n, 0, FALSE, 0) : c \in RawCmds, n \in 1 .. MaxNWords }

\* a driver that remembers the sensor's mode and turns away, while the sensor is
\* measuring, the calls that are only legal when it is idle
EntryPcModeChecked(o) ==
  IF mode # "Idle" /\ o \in WriteOps \cup { "startPeriodicMeasurement",
                                            "startLowPowerPeriodicMeasurement" }
    THEN "done"
    ELSE CASE o \in SendOps \cup { "sendCommand" } -> "send"
           [] o \in WriteOps \cup { "writeCommand" } -> "write"
           [] o \in ReadWordOps \cup { "readNData" } -> "rnd_send"
           [] o = "begin" -> "begin_wake"
           [] o = "readMeasurement" -> "rm_send"
           [] o = "readSerialNumber" -> "rsn_send"
           [] o = "performForcedRecalibration" -> "frc_write"

\* where the code of operation o starts
EntryPc(o) ==
  CASE o \in SendOps \cup { "sendCommand" } -> "send"
    [] o \in WriteOps \cup { "writeCommand" } -> "write"
    [] o \in ReadWordOps \cup { "readNData" } -> "rnd_send"
    [] o = "begin" -> "begin_wake"
    [] o = "readMeasurement" -> "rm_send"
    [] o = "readSerialNumber" -> "rsn_send"
    [] o = "performForcedRecalibration" -> "frc_write"

\* the output arguments of operation o before the call
OutArgs(o, a) ==
  CASE o \in ReadWordOps -> Slots(1)
    [] o = "readNData" -> Slots(a.n)
    [] o = "readMeasurement" -> Slots(3)
    [] o = "readSerialNumber" -> Slots(1)
    [] o = "performForcedRecalibration" -> IF a.want THEN Slots(1) ELSE << >>
    [] OTHER -> << >>

-----------------------------------------------------------------------------
(* State machine *)

Init ==
  /\ pc = "idle"
  /\ op = "begin"
  /\ arg = Args(0, << >>, 0, 0, FALSE, 0)
  /\ clock \in StartClocks
  /\ address \in Addrs
  /\ mode \in Modes
  /\ mode0 = mode
  /\ bus = << >>
  /\ rx = NoRx
  /\ t0 = U32(0, 0)
  /\ out = << >>
  /\ val = << >>
  /\ ret = FALSE
  /\ lowFail = {}
  /\ calls = << >>
  /\ waited = 0

\* the sketch calls operation o
Call(o) ==
  /\ pc = "idle"
  /\ \E a \in ArgsOf(o) :
       /\ arg' = a
       /\ val' = OutArgs(o, a)
       /\ out' = IF o \in ReadWordOps \cup { "readNData", "performForcedRecalibration" }
                   THEN Slots(a.n) ELSE << >>
  /\ op' = o
  /\ pc' = EntryPc(o)
  /\ UNCHANGED <<clock, address, mode, mode0, bus, rx, t0, ret, lowFail, calls, waited>>

\* the call has returned and the sketch goes on to its next one, any time later;
\* only the driver's address field and the sensor's mode outlive the call
Loop ==
  /\ pc = "done"
  /\ pc' = "idle"
  /\ op' = "begin"
  /\ arg' = Args(0, << >>, 0, 0, FALSE, 0)
  /\ clock' \in StartClocks
  /\ mode0' = mode
  /\ bus' = << >>
  /\ rx' = NoRx
  /\ t0' = U32(0, 0)
  /\ out' = << >>
  /\ val' = << >>
  /\ ret' = FALSE
  /\ lowFail' = {}
  /\ calls' = << >>
  /\ waited' = 0
  /\ UNCHANGED <<address, mode>>

\* return r from the facade call
Return(r, fails) ==
  /\ pc' = "done"
  /\ ret' = r
  /\ lowFail' = lowFail \cup fails

\* the bus carries write transaction ev
Transmit(ev) ==
  /\ bus' = Append(bus, ev)
  /\ mode' = ModeAfter(ev)

Nack(ack) == IF ack THEN {} ELSE { "nack" }

\* sendCommand trying a second time when the first transmission fails
SendStepRetry ==
  /\ pc = "send"
  /\ \E ack \in DeviceAcks(address), again \in DeviceAcks(address) :
       IF ack
         THEN /\ Transmit(sendCommand(arg.cmd, ack))
              /\ Return(TRUE, {})
         ELSE /\ bus' = bus \o <<sendCommand(arg.cmd, ack), sendCommand(arg.cmd, again)>>
              /\ mode' = ModeAfter(sendCommand(arg.cmd, again))
              /\ Return(again, { "nack" })
  /\ UNCHANGED <<op, arg, clock, address, mode0, rx, t0, out, val, calls, waited>>

\* bool f() { return sendCommand(X); }
SendStep ==
  /\ pc = "send"
  /\ \E ack \in DeviceAcks(address) :
       /\ Transmit(sendCommand(arg.cmd, ack))
       /\ Return(ack, Nack(ack))
  /\ UNCHANGED <<op, arg, clock, address, mode0, rx, t0, out, val, calls, waited>>

\* bool f(x) { return writeCommand(X, &x, 1); }
WriteStep ==
  /\ pc = "write"
  /\ \E ack \in DeviceAcks(address) :
       /\ Transmit(writeCommand(arg.cmd, arg.words, ack))
       /\ Return(ack, Nack(ack))
  /\ UNCHANGED <<op, arg, clock, address, mode0, rx, t0, out, val, calls, waited>>

-----------------------------------------------------------------------------
(* readNData *)

\* degC = 175.0f * (float)raw / 65535.0f, kept as 65535 * degC
TempOffsetDegC(raw) == 175 * raw

\* what the caller's output arguments hold after readNData has returned r
FinishVal(o, r) ==
  CASE o = "getTemperatureOffset" ->
         \* uint16_t raw; if (!readNData(...)) return false; degC = ...
         IF r.ok THEN <<Written(TempOffsetDegC(r.out[1].v))>> ELSE val
    [] o = "getAutomaticSelfCalibrationEnabled" ->
         \* uint16_t val; ...; enabled = (val != 0)
         IF r.ok THEN <<Written(IF r.out[1].v # 0 THEN 1 ELSE 0)>> ELSE val
    [] OTHER -> r.out

\* readNData going on to the request whether the command was acknowledged or not
RndSendUnchecked ==
  /\ pc = "rnd_send"
  /\ \E ack \in DeviceAcks(address), j \in Jitters :
       /\ Transmit(sendCommand(arg.cmd, ack))
       /\ lowFail' = lowFail \cup Nack(ack)
       /\ clock' = delay(RND_SETTLE_MS, j)
  /\ pc' = "rnd_request"
  /\ UNCHANGED <<op, arg, address, mode0, rx, t0, out, val, ret, calls, waited>>

\* if (!sendCommand(cmd)) return false; delay(1);
RndSend ==
  /\ pc = "rnd_send"
  /\ \E ack \in DeviceAcks(address), j \in Jitters :
       /\ Transmit(sendCommand(arg.cmd, ack))
       /\ IF ack
            THEN /\ pc' = "rnd_request"
                 /\ clock' = delay(RND_SETTLE_MS, j)
                 /\ UNCHANGED <<ret, lowFail>>
            ELSE /\ Return(FALSE, { "nack" })
                 /\ UNCHANGED clock
  /\ UNCHANGED <<op, arg, address, mode0, rx, t0, out, val, calls, waited>>

\* i2c->requestFrom(address, (uint8_t)nbytes); uint32_t t0 = millis();
RndRequest ==
  /\ pc = "rnd_request"
  /\ bus' = Append(bus, RequestEvent(arg.n * 3))
  /\ rx' \in RxChoices(U8(arg.n * 3))
  /\ t0' = clock
  /\ waited' = 0
  /\ pc' = "rnd_poll"
  /\ UNCHANGED <<op, arg, clock, address, mode, mode0, out, val, ret, lowFail, calls>>

\* the timeout test against a deadline, millis() > t0 + 100, both as uint32_t
TimedOutAbsolute(now, since) ==
  LET deadline == U32Add(since, RND_TIMEOUT_MS)
  IN  now[1] > deadline[1] \/ (now[1] = deadline[1] /\ now[2] > deadline[2])

\* the timeout test turned around
TimedOutInverted(now, since) == ~ U32Gt(Elapsed(now, since), RND_TIMEOUT_MS)

\* millis() - t0 > 100
TimedOut(now, since) == U32Gt(Elapsed(now, since), RND_TIMEOUT_MS)

\* while (available() < nbytes) { ...; delay(1); }
RndWait ==
  /\ pc = "rnd_poll"
  /\ available < arg.n * 3
  /\ ~ TimedOut(clock, t0)
  /\ \E j \in Jitters :
       /\ clock' = delay(RND_POLL_MS, j)
       /\ waited' = waited + RND_POLL_MS + j
  /\ UNCHANGED <<pc, op, arg, address, mode, mode0, bus, rx, t0, out, val, ret, lowFail, calls>>

\* if (millis() - t0 > 100) return false;
RndTimeout ==
  /\ pc = "rnd_poll"
  /\ available < arg.n * 3
  /\ TimedOut(clock, t0)
  /\ Return(FALSE, { "timeout" })
  /\ UNCHANGED <<op, arg, clock, address, mode, mode0, bus, rx, t0, out, val,
               calls, waited>>

\* the word loop, once the poll loop has seen nbytes available
RndRead ==
  /\ pc = "rnd_poll"
  /\ available >= arg.n * 3
  /\ \E resp \in Responses(arg.n) :
       LET r == ReadLoop(resp, out, 1, arg.n)
       IN  /\ out' = r.out
           /\ val' = FinishVal(op, r)
           /\ rx' = ReadOut(rx, resp)
           /\ Return(r.ok, IF r.ok THEN {} ELSE { "crc" })
  /\ UNCHANGED <<op, arg, clock, address, mode, mode0, bus, t0, calls, waited>>

readNData == RndSend \/ RndRequest \/ RndWait \/ RndTimeout \/ RndRead

-----------------------------------------------------------------------------
(* performForcedRecalibration *)

\* if (!writeCommand(FRC, &reference_ppm, 1)) return false;
\* if (frc_result) { delay(500); if (!readNData(FRC, frc_result, 1)) return false; }
\* return true;
performForcedRecalibration ==
  /\ pc = "frc_write"
  /\ \E ack \in DeviceAcks(address), j \in Jitters :
       /\ Transmit(writeCommand(arg.cmd, arg.words, ack))
       /\ IF ~ack
            THEN Return(FALSE, { "nack" }) /\ UNCHANGED clock
            ELSE IF arg.want
                   THEN /\ pc' = "rnd_send"
                        /\ clock' = delay(FRC_DELAY_MS, j)
                        /\ UNCHANGED <<ret, lowFail>>
                   ELSE Return(TRUE, {}) /\ UNCHANGED clock
  /\ UNCHANGED <<op, arg, address, mode0, rx, t0, out, val, calls, waited>>

-----------------------------------------------------------------------------
(* readSerialNumber, readMeasurement *)

\* the serial number assembled in 32 bits: the word shifted by 32 is lost
SerialOf32(w0, w1, w2) == <<0, 0, U16(w1), U16(w2)>>

\* sn = ((uint64_t)w0 << 32) | ((uint64_t)w1 << 16) | (uint64_t)w2
\* (a uint64_t kept as four 16-bit parts, the highest first)
SerialOf(w0, w1, w2) == <<0, U16(w0), U16(w1), U16(w2)>>

\* the conversion taking the temperature from the third word and the humidity
\* from the second
MeasurementOfSwapped(w0, w1, w2) ==
  <<Written(w0), Written(175 * w2 - 45 * 65535), Written(100 * w1)>>

\* co2_ppm = co2_raw; temp_c = -45 + 175 * t_raw / 65535; rh = 100 * rh_raw / 65535
\* (temperature and humidity kept as 65535 times their value)
MeasurementOf(w0, w1, w2) ==
  <<Written(w0), Written(175 * w1 - 45 * 65535), Written(100 * w2)>>

\* if (!sendCommand(GET_SERIAL_NUMBER)) return false; delay(5);
RsnSend ==
  /\ pc = "rsn_send"
  /\ \E ack \in DeviceAcks(address), j \in Jitters :
       /\ Transmit(sendCommand(CommandId("readSerialNumber"), ack))
       /\ IF ack
            THEN /\ pc' = "rsn_read"
                 /\ clock' = delay(RSN_SETTLE_MS, j)
                 /\ UNCHANGED <<ret, lowFail>>
            ELSE /\ Return(FALSE, { "nack" })
                 /\ UNCHANGED clock
  /\ UNCHANGED <<op, arg, address, mode0, rx, t0, out, val, calls, waited>>

\* requestFrom(address, 9); if (available() < 9) return false; read 9 bytes;
\* three checkCrc; sn = ...; return true;
RsnRead ==
  /\ pc = "rsn_read"
  /\ bus' = Append(bus, RequestEvent(9))
  /\ \E r \in RxChoices(9) :
       IF AvailableAt(r, clock) < 9
         THEN Return(FALSE, { "nodata" }) /\ rx' = r /\ UNCHANGED val
         ELSE \E raw \in Responses(3) :
                LET c == CheckThree(raw)
                IN  /\ rx' = ReadOut(r, raw)
                    /\ IF ~c.ok
                         THEN Return(FALSE, { "crc" }) /\ UNCHANGED val
                         ELSE /\ Return(TRUE, {})
                              /\ val' = IF op = "readSerialNumber"
                                          THEN <<Written(SerialOf(c.w0, c.w1, c.w2))>>
                                          ELSE val
  /\ UNCHANGED <<op, arg, clock, address, mode, mode0, t0, out, calls, waited>>

readSerialNumber == RsnSend \/ RsnRead

\* if (!sendCommand(READ_MEASUREMENT)) return false; delay(5);
RmSend ==
  /\ pc = "rm_send"
  /\ \E ack \in DeviceAcks(address), j \in Jitters :
       /\ Transmit(sendCommand(CommandId("readMeasurement"), ack))
       /\ IF ack
            THEN /\ pc' = "rm_read"
                 /\ clock' = delay(RM_SETTLE_MS, j)
                 /\ UNCHANGED <<ret, lowFail>>
            ELSE /\ Return(FALSE, { "nack" })
                 /\ UNCHANGED clock
  /\ UNCHANGED <<op, arg, address, mode0, rx, t0, out, val, calls, waited>>

\* readMeasurement storing each value as soon as its own word has passed
RmReadEager ==
  /\ pc = "rm_read"
  /\ bus' = Append(bus, RequestEvent(9))
  /\ \E r \in RxChoices(9) :
       IF AvailableAt(r, clock) < 9
         THEN Return(FALSE, { "nodata" }) /\ rx' = r /\ UNCHANGED val
         ELSE \E raw \in Responses(3) :
                LET c  == CheckThree(raw)
                    c0 == checkCrc(SubSeq(raw, 1, 3), 0)
                IN  /\ rx' = ReadOut(r, raw)
                    /\ IF ~c.ok
                         THEN /\ Return(FALSE, { "crc" })
                              /\ val' = IF c0.ok THEN [val EXCEPT ![1] = Written(c0.word)]
                                                 ELSE val
                         ELSE /\ Return(TRUE, {})
                              /\ val' = MeasurementOf(c.w0, c.w1, c.w2)
  /\ UNCHANGED <<op, arg, clock, address, mode, mode0, t0, out, calls, waited>>

\* requestFrom(address, 9); if (available() < 9) return false; read 9 bytes;
\* three checkCrc; convert; return true;
RmRead ==
  /\ pc = "rm_read"
  /\ bus' = Append(bus, RequestEvent(9))
  /\ \E r \in RxChoices(9) :
       IF AvailableAt(r, clock) < 9
         THEN Return(FALSE, { "nodata" }) /\ rx' = r /\ UNCHANGED val
         ELSE \E raw \in Responses(3) :
                LET c == CheckThree(raw)
                IN  /\ rx' = ReadOut(r, raw)
                    /\ IF ~c.ok
                         THEN Return(FALSE, { "crc" }) /\ UNCHANGED val
                         ELSE /\ Return(TRUE, {})
                              /\ val' = MeasurementOf(c.w0, c.w1, c.w2)
  /\ UNCHANGED <<op, arg, clock, address, mode, mode0, t0, out, calls, waited>>

readMeasurement == RmSend \/ RmRead

-----------------------------------------------------------------------------
(* begin *)

\* begin giving up when the wake-up is not acknowledged
BeginWakeUpChecked ==
  /\ pc = "begin_wake"
  /\ \E ack \in DeviceAcks(address), j \in Jitters :
       /\ Transmit(sendCommand(CommandId("wakeUp"), ack))
       /\ IF ack
            THEN /\ pc' = "begin_reinit"
                 /\ clock' = delay(BEGIN_DELAY_MS, j)
                 /\ UNCHANGED <<ret, lowFail>>
            ELSE /\ Return(FALSE, { "nack" })
                 /\ UNCHANGED clock
  /\ UNCHANGED <<op, arg, address, mode0, rx, t0, out, val, calls, waited>>

\* (void)wakeUp(); delay(100);
BeginWakeUp ==
  /\ pc = "begin_wake"
  /\ \E ack \in DeviceAcks(address), j \in Jitters :
       /\ Transmit(sendCommand(CommandId("wakeUp"), ack))
       /\ lowFail' = lowFail \cup Nack(ack)
       /\ clock' = delay(BEGIN_DELAY_MS, j)
  /\ pc' = "begin_reinit"
  /\ UNCHANGED <<op, arg, address, mode0, rx, t0, out, val, ret, calls, waited>>

\* (void)reInit(); delay(100);
BeginReInit ==
  /\ pc = "begin_reinit"
  /\ \E ack \in DeviceAcks(address), j \in Jitters :
       /\ Transmit(sendCommand(CommandId("reInit"), ack))
       /\ lowFail' = lowFail \cup Nack(ack)
       /\ clock' = delay(BEGIN_DELAY_MS, j)
  /\ pc' = "begin_stop"
  /\ UNCHANGED <<op, arg, address, mode0, rx, t0, out, val, ret, calls, waited>>

\* address = i2cAddr; sendCommand(STOP_PERIODIC_MEASUREMENT); delay(5);
\* then: if (readSerialNumber(sn)) return true; return false;
BeginStop ==
  /\ pc = "begin_stop"
  /\ address' = arg.addr
  /\ \E ack \in DeviceAcks(arg.addr), j \in Jitters :
       /\ bus' = Append(bus, [sendCommand(CommandId("stopPeriodicMeasurement"), ack)
                                EXCEPT !.addr = arg.addr])
       /\ mode' = IF ack THEN DeviceAccept(mode, CommandId("stopPeriodicMeasurement"))
                         ELSE mode
       /\ lowFail' = lowFail \cup Nack(ack)
       /\ clock' = delay(BEGIN_STOP_DELAY_MS, j)
  /\ pc' = "rsn_send"
  /\ UNCHANGED <<op, arg, mode0, rx, t0, out, val, ret, calls, waited>>

begin == BeginWakeUp \/ BeginReInit \/ BeginStop

-----------------------------------------------------------------------------
(* Specification *)

\* the steps of the driver inside a call
Step ==
  \/ SendStep
  \/ WriteStep
  \/ readNData
  \/ performForcedRecalibration
  \/ readSerialNumber
  \/ readMeasurement
  \/ begin

Next == (\E o \in Ops : Call(o)) \/ Step \/ Loop

Spec == Init /\ [][Next]_vars

-----------------------------------------------------------------------------
(* readNData on its own, run to its return *)

\* a call of readNData, directly or from a one-word getter, has just been entered
ReadInit ==
  /\ pc = "rnd_send"
  /\ op \in ReadWordOps \cup { "readNData" }
  /\ arg \in ArgsOf(op)
  /\ clock \in StartClocks
  /\ address \in Addrs
  /\ mode \in Modes
  /\ mode0 = mode
  /\ bus = << >>
  /\ rx = NoRx
  /\ t0 = U32(0, 0)
  /\ out = Slots(arg.n)
  /\ val = OutArgs(op, arg)
  /\ ret = FALSE
  /\ lowFail = {}
  /\ calls = << >>
  /\ waited = 0

\* The driver is one blocking thread: a call that can take a step takes it.
ReadSpec == ReadInit /\ [][readNData]_vars /\ WF_vars(readNData)

-----------------------------------------------------------------------------
(* crc8 on its own, over all byte pairs *)

CrcInit ==
  /\ pc = "crc_call"
  /\ op = "crc8"
  /\ arg \in { Args(0, <<b0, b1>>, 0, 0, FALSE, 0) : b0 \in Byte, b1 \in Byte }
  /\ clock = U32(0, 0)
  /\ address = SensorAddr
  /\ mode = "Idle"
  /\ mode0 = mode
  /\ bus = << >>
  /\ rx = NoRx
  /\ t0 = U32(0, 0)
  /\ out = << >>
  /\ val = << >>
  /\ ret = FALSE
  /\ lowFail = {}
  /\ calls = << >>
  /\ waited = 0

\* uint8_t c = crc8(b0, b1);
CrcApply ==
  /\ pc = "crc_call"
  /\ val' = <<Written(crc8(arg.words[1], arg.words[2]))>>
  /\ pc' = "done"
  /\ UNCHANGED <<op, arg, clock, address, mode, mode0, bus, rx, t0, out, ret, lowFail,
               calls, waited>>

CrcSpec == CrcInit /\ [][CrcApply]_vars

-----------------------------------------------------------------------------
(* checkCrc and the word loop of readNData on one group, intact or with one bit *)
(* flipped                                                                     *)

\* high bytes of the words put through the round trip (every low byte is)
FlipHighBytes == { 0, 18, 190, 255 }

FlipWords == { h * 256 + l : h \in FlipHighBytes, l \in Byte }

\* bit positions of a 3-byte group, 1 .. 24; 0 stands for no flip
FlipBits == 0 .. 24

\* group g with bit k flipped (bits 1 .. 8 in byte 1, lowest first, and so on)
FlipBit(g, k) ==
  IF k = 0 THEN g
  ELSE LET i == ((k - 1) \div 8) + 1
       IN  [g EXCEPT ![i] = Xor(g[i], 2 ^ ((k - 1) % 8), 8)]

FlipInit ==
  /\ pc = "flip_call"
  /\ op = "checkCrc"
  /\ arg \in { Args(0, <<w>>, k, 0, FALSE, 0) : w \in FlipWords, k \in FlipBits }
  /\ clock = U32(0, 0)
  /\ address = SensorAddr
  /\ mode = "Idle"
  /\ mode0 = mode
  /\ bus = << >>
  /\ rx = NoRx
  /\ t0 = U32(0, 0)
  /\ out = Slots(1)
  /\ val = Slots(1)
  /\ ret = FALSE
  /\ lowFail = {}
  /\ calls = << >>
  /\ waited = 0

\* the word is encoded as txCommand encodes a payload word, bit arg.n of the group
\* is flipped, and the group goes through checkCrc (ret, val) and through the
\* word loop of readNData (lowFail, out)
FlipApply ==
  /\ pc = "flip_call"
  /\ LET g == FlipBit(TxPayload(arg.words, 1), arg.n)
         c == checkCrc(g, 0)
         r == ReadLoop(g, out, 1, 1)
     IN  /\ rx' = ReadOut(rx, g)
         /\ ret' = c.ok
         /\ val' = IF c.ok THEN <<Written(c.word)>> ELSE val
         /\ out' = r.out
         /\ lowFail' = IF r.ok THEN {} ELSE { "crc" }
  /\ pc' = "done"
  /\ UNCHANGED <<op, arg, clock, address, mode, mode0, bus, t0, calls, waited>>

FlipSpec == FlipInit /\ [][FlipApply]_vars

-----------------------------------------------------------------------------
(* SCD40 (7semi_SCD40.cpp): the wrapper over Sensirion's SensirionI2cScd4x     *)

SCD40ForwardOps ==
  { "SCD40::start", "SCD40::stop", "SCD40::getSerialNumber",
    "SCD40::setTemperatureOffset", "SCD40::getTemperatureOffset",
    "SCD40::setAmbientPressure", "SCD40::enableAutomaticSelfCalibration",
    "SCD40::performFactoryReset", "SCD40::reinit" }

SCD40Ops == SCD40ForwardOps \cup { "SCD40::begin", "SCD40::readSingleShot" }

\* the member of _scd4x a one-line operation of SCD40 calls
SCD40Underlying(o) ==
  CASE o = "SCD40::start" -> "startPeriodicMeasurement"
    [] o = "SCD40::stop" -> "stopPeriodicMeasurement"
    [] o = "SCD40::getSerialNumber" -> "getSerialNumber"
    [] o = "SCD40::setTemperatureOffset" -> "setTemperatureOffset"
    [] o = "SCD40::getTemperatureOffset" -> "getTemperatureOffset"
    [] o = "SCD40::setAmbientPressure" -> "setAmbientPressure"
    [] o = "SCD40::enableAutomaticSelfCalibration" -> "setAutomaticSelfCalibrationTarget"
    [] o = "SCD40::performFactoryReset" -> "performFactoryReset"
    [] o = "SCD40::reinit" -> "reinit"

\* int16_t error codes a SensirionI2cScd4x call returns; 0 is success
ErrCodes == { 0, 1, 0 - 1 }

\* #define Serial_number 0x1019EB073B70, as four 16-bit parts, the highest first
Serial_number == <<0, 4121, 60167, 15216>>

\* serial numbers a sensor on the bus reports: the expected one, one that differs
\* from it above bit 31 only, and another one
SensorSerials == { Serial_number, <<0, 4120, 60167, 15216>>, <<0, 4660, 22136, 39612>> }

\* uint64_t sr_number = 0
NoSerial == <<0, 0, 0, 0>>

\* the serial number compared in 32 bits
SerialMatchesLow32(sn) == SubSeq(sn, 3, 4) = SubSeq(Serial_number, 3, 4)

\* sr_number == Serial_number
SerialMatches(sn) == sn = Serial_number

\* a call into _scd4x: the member called, its argument, the error code it
\* returned and what it stored through its reference arguments
DriverCall(fn, a, err, o) == [fn |-> fn, arg |-> a, err |-> err, out |-> o]

\* what a member of _scd4x stores through its reference arguments when it does
SCD40Outputs(o) ==
  CASE o = "SCD40::getSerialNumber" -> SensorSerials
    [] o = "SCD40::getTemperatureOffset" -> { <<d>> : d \in DegCs }
    [] o = "SCD40::readSingleShot" -> { <<400, 25000, 50000>>, <<0, 0, 0>> }
    [] OTHER -> { << >> }

\* the argument values the operations of SCD40 are called with (in field f)
SCD40ArgsOf(o) ==
  CASE o = "SCD40::setTemperatureOffset" -> { Args(0, << >>, 0, 0, FALSE, d) : d \in DegCs }
    [] o = "SCD40::setAmbientPressure" -> { Args(0, << >>, 0, 0, FALSE, x) : x \in ArgWords }
    [] o = "SCD40::enableAutomaticSelfCalibration" ->
         { Args(0, << >>, 0, 0, FALSE, b) : b \in { 0, 1 } }
    [] OTHER -> { Args(0, << >>, 0, 0, FALSE, 0) }

SCD40EntryPc(o) ==
  CASE o = "SCD40::begin" -> "scd40_begin"
    [] o = "SCD40::readSingleShot" -> "scd40_ss_wake"
    [] OTHER -> "scd40_call"

\* the reference arguments of operation o before the call
SCD40OutArgs(o) ==
  CASE o \in { "SCD40::getSerialNumber", "SCD40::getTemperatureOffset" } -> Slots(1)
    [] o = "SCD40::readSingleShot" -> Slots(3)
    [] OTHER -> << >>

\* SCD40::begin: delay(100) and delay(500)
SCD40_BEGIN_DELAY_MS == 100
SCD40_STOP_DELAY_MS == 500

SCD40Init ==
  /\ pc = "idle"
  /\ op = "SCD40::begin"
  /\ arg = Args(0, << >>, 0, 0, FALSE, 0)
  /\ clock \in StartClocks
  /\ address = SensorAddr
  /\ mode \in Modes
  /\ mode0 = mode
  /\ bus = << >>
  /\ rx = NoRx
  /\ t0 = U32(0, 0)
  /\ out = << >>
  /\ val = << >>
  /\ ret = FALSE
  /\ lowFail = {}
  /\ calls = << >>
  /\ waited = 0

\* the sketch calls operation o of SCD40
SCD40Call(o) ==
  /\ pc = "idle"
  /\ arg' \in SCD40ArgsOf(o)
  /\ val' = SCD40OutArgs(o)
  /\ op' = o
  /\ pc' = SCD40EntryPc(o)
  /\ UNCHANGED <<clock, address, mode, mode0, bus, rx, t0, out, ret, lowFail,
               calls, waited>>

\* bool f(x) { return (_scd4x.g(x) == 0); }
\* (a member that fails may or may not have stored through its references)
SCD40Forward ==
  /\ pc = "scd40_call"
  /\ \E err \in ErrCodes, o \in SCD40Outputs(op), stored \in BOOLEAN :
       /\ err = 0 => stored
       /\ calls' = Append(calls, DriverCall(SCD40Underlying(op), arg.f, err,
                                            IF stored THEN o ELSE << >>))
       /\ val' = IF stored /\ val # << >> THEN <<Written(o)>> ELSE val
       /\ Return(err = 0, {})
  /\ UNCHANGED <<op, arg, clock, address, mode, mode0, bus, rx, t0, out, waited>>

\* _wire = &wirePort; _wire->begin(); delay(100); _scd4x.begin(*_wire, 0x62);
SCD40BeginWire ==
  /\ pc = "scd40_begin"
  /\ \E j \in Jitters : clock' = delay(SCD40_BEGIN_DELAY_MS, j)
  /\ calls' = Append(calls, DriverCall("begin", SensorAddr, 0, << >>))
  /\ pc' = "scd40_begin_sn"
  /\ UNCHANGED <<op, arg, address, mode, mode0, bus, rx, t0, out, val, ret,
               lowFail, waited>>

\* if (getSerialNumber(sr_number)) { if (sr_number == Serial_number) { ... } }
\* return false;
SCD40BeginSerial ==
  /\ pc = "scd40_begin_sn"
  /\ \E err \in ErrCodes, sn \in SensorSerials, stored \in BOOLEAN :
       LET sr_number == IF stored THEN sn ELSE NoSerial
       IN  /\ err = 0 => stored
           /\ calls' = Append(calls, DriverCall("getSerialNumber", 0, err, sr_number))
           /\ IF err = 0 /\ SerialMatches(sr_number)
                THEN pc' = "scd40_begin_stop" /\ UNCHANGED <<ret, lowFail>>
                ELSE Return(FALSE, {})
  /\ UNCHANGED <<op, arg, clock, address, mode, mode0, bus, rx, t0, out, val, waited>>

\* _scd4x.stopPeriodicMeasurement(); delay(500); return true;
SCD40BeginStop ==
  /\ pc = "scd40_begin_stop"
  /\ \E err \in ErrCodes, j \in Jitters :
       /\ calls' = Append(calls, DriverCall("stopPeriodicMeasurement", 0, err, << >>))
       /\ clock' = delay(SCD40_STOP_DELAY_MS, j)
  /\ Return(TRUE, {})
  /\ UNCHANGED <<op, arg, address, mode, mode0, bus, rx, t0, out, val, waited>>

SCD40_begin == SCD40BeginWire \/ SCD40BeginSerial \/ SCD40BeginStop

\* error = _scd4x.wakeUp(); if (error != 0) return false;
SCD40SingleShotWakeUp ==
  /\ pc = "scd40_ss_wake"
  /\ \E err \in ErrCodes :
       /\ calls' = Append(calls, DriverCall("wakeUp", 0, err, << >>))
       /\ IF err # 0
            THEN Return(FALSE, {})
            ELSE pc' = "scd40_ss_measure" /\ UNCHANGED <<ret, lowFail>>
  /\ UNCHANGED <<op, arg, clock, address, mode, mode0, bus, rx, t0, out, val, waited>>

\* readSingleShot going on to the read whatever measureSingleShot reported
SCD40SingleShotMeasureUnchecked ==
  /\ pc = "scd40_ss_measure"
  /\ \E err \in ErrCodes :
       calls' = Append(calls, DriverCall("measureSingleShot", 0, err, << >>))
  /\ pc' = "scd40_ss_read"
  /\ UNCHANGED <<op, arg, clock, address, mode, mode0, bus, rx, t0, out, val, ret,
               lowFail, waited>>

\* error = _scd4x.measureSingleShot(); if (error != 0) return false;
SCD40SingleShotMeasure ==
  /\ pc = "scd40_ss_measure"
  /\ \E err \in ErrCodes :
       /\ calls' = Append(calls, DriverCall("measureSingleShot", 0, err, << >>))
       /\ IF err # 0
            THEN Return(FALSE, {})
            ELSE pc' = "scd40_ss_read" /\ UNCHANGED <<ret, lowFail>>
  /\ UNCHANGED <<op, arg, clock, address, mode, mode0, bus, rx, t0, out, val, waited>>

\* error = _scd4x.measureAndReadSingleShot(co2, temperature, humidity);
\* return (error == 0);
SCD40SingleShotRead ==
  /\ pc = "scd40_ss_read"
  /\ \E err \in ErrCodes, o \in SCD40Outputs(op), stored \in BOOLEAN :
       /\ err = 0 => stored
       /\ calls' = Append(calls, DriverCall("measureAndReadSingleShot", 0, err,
                                            IF stored THEN o ELSE << >>))
       /\ val' = IF stored THEN [i \in 1 .. 3 |-> Written(o[i])] ELSE val
       /\ Return(err = 0, {})
  /\ UNCHANGED <<op, arg, clock, address, mode, mode0, bus, rx, t0, out, waited>>

SCD40_readSingleShot ==
  SCD40SingleShotWakeUp \/ SCD40SingleShotMeasure \/ SCD40SingleShotRead

SCD40Step == SCD40Forward \/ SCD40_begin \/ SCD40_readSingleShot

SCD40Next == (\E o \in SCD40Ops : SCD40Call(o)) \/ SCD40Step \/ Loop

SCD40Spec == SCD40Init /\ [][SCD40Next]_vars

-----------------------------------------------------------------------------
(* Properties *)

Done == pc = "done"

\* the bytes of bus transaction i
BytesOf(i) == bus[i].bytes

\* data holds n groups [MSB, LSB, CRC], each with the CRC-8 of its two bytes
GroupsValid(data, n) ==
  /\ Len(data) = 3 * n
  /\ \A k \in 1 .. n : data[3 * k] = crc8(data[3 * k - 2], data[3 * k - 1])

\* word k of the groups in data
WordOf(data, k) == data[3 * k - 2] * 256 + data[3 * k - 1]

\* the bus transactions of the running call that are read requests
Requests == { i \in 1 .. Len(bus) : bus[i].kind = "request" }

(* C1: a sendCommand / writeCommand call makes one write transaction to the    *)
(* device address holding the command, high byte first, then for each payload  *)
(* word in order its high byte, its low byte and the CRC-8 of these two bytes: *)
(* 2 + 3n bytes.                                                               *)
C1_TxFrame ==
  /\ \A i \in 1 .. Len(bus) :
       bus[i].kind = "write" =>
         /\ Len(BytesOf(i)) >= 2
         /\ (Len(BytesOf(i)) - 2) % 3 = 0
         /\ \A k \in 1 .. ((Len(BytesOf(i)) - 2) \div 3) :
              BytesOf(i)[3 * k + 2] = crc8(BytesOf(i)[3 * k], BytesOf(i)[3 * k + 1])
  /\ (Done /\ op \in { "sendCommand", "writeCommand" }) =>
    /\ Len(bus) = 1
    /\ bus[1].kind = "write"
    /\ bus[1].addr = address
    /\ Len(BytesOf(1)) = 2 + 3 * Len(arg.words)
    /\ \A k \in 1 .. Len(BytesOf(1)) : BytesOf(1)[k] \in Byte
    /\ BytesOf(1)[1] * 256 + BytesOf(1)[2] = arg.cmd
    /\ \A k \in 1 .. Len(arg.words) :
         /\ BytesOf(1)[3 * k] * 256 + BytesOf(1)[3 * k + 1] = arg.words[k]
         /\ BytesOf(1)[3 * k + 2] = crc8(BytesOf(1)[3 * k], BytesOf(1)[3 * k + 1])

\* a two-word payload of different words has gone out as 8 bytes
C1_Witness ==
  /\ Done
  /\ op = "writeCommand"
  /\ arg.cmd = 16262
  /\ arg.words = <<48879, 0>>
  /\ BytesOf(1) = <<63, 134, 190, 239, 146, 0, 0, 129>>

(* C2: when a word received by readNData fails its CRC check the read returns  *)
(* false and the output buffer holds none of the words of this read.           *)
C2_NoPartialWords ==
  (Done /\ op = "readNData" /\ "crc" \in lowFail) =>
    /\ ret = FALSE
    /\ \A i \in 1 .. Len(out) : ~ out[i].w

\* while the poll loop runs the transport will never have the bytes asked for
NeverEnough == pc = "rnd_poll" /\ (~ rx.arrives \/ rx.count < arg.n * 3)

\* readNData has returned false for a timeout
TimedOutReturn == Done /\ ret = FALSE /\ "timeout" \in lowFail

(* C3: when the transport never reports nwords*3 available bytes, readNData    *)
(* leaves its poll loop and returns false, and it does so only when more than  *)
(* 100 ms have passed since polling began.                                     *)
C3_PollTimesOut ==
  /\ NeverEnough ~> TimedOutReturn
  /\ [](TimedOutReturn => U32Gt(Elapsed(clock, t0), 100))

\* a two-word read has timed out on a transport that delivered nothing
C3_Witness ==
  /\ TimedOutReturn
  /\ op = "readNData"
  /\ arg.n = 2
  /\ ~ rx.arrives
  /\ Len(bus) = 2

(* C4: a facade operation in which a lower-layer step has failed (a write not  *)
(* acknowledged, a read timed out or short of bytes, a CRC mismatch) returns   *)
(* false.                                                                      *)
C4_FailureReported ==
  (Done /\ op \in FacadeOps /\ lowFail # {}) => ret = FALSE

(* C5: the driver keeps no record of the sensor's mode: whatever the mode the  *)
(* call was made in, a facade call starts with the write of its own command,   *)
(* and a send-only or setter call is that one write, with the caller's word,   *)
(* and returns whether it was acknowledged.                                    *)
C5_NoModeTracking ==
  (Done /\ op \in FacadeOps) =>
    /\ Len(bus) >= 1
    /\ bus[1].kind = "write"
    /\ BytesOf(1)[1] * 256 + BytesOf(1)[2] = CommandId(op)
    /\ op \in SendOps \cup WriteOps =>
         /\ Len(bus) = 1
         /\ BytesOf(1) = txCommand(CommandId(op), arg.words)
         /\ ret = bus[1].ack

\* a second start-periodic, and a setter, while the sensor measures: sent and accepted
C5_Witness ==
  /\ Done
  /\ mode0 = "Periodic"
  /\ op \in { "startPeriodicMeasurement", "setSensorAltitude" }
  /\ ret = TRUE
  /\ BytesOf(1)[1] * 256 + BytesOf(1)[2] = CommandId(op)

\* the sensor acknowledged a stop-periodic-measurement command during this call
StopAccepted ==
  \E i \in 1 .. Len(bus) :
    /\ bus[i].kind = "write"
    /\ bus[i].ack
    /\ bus[i].addr = SensorAddr
    /\ BytesOf(i) = <<63, 134>>

(* C6: whenever begin returns true the sensor is idle: a stop-periodic-        *)
(* measurement command was issued during the call and accepted.                *)
C6_BeginLeavesIdle ==
  (Done /\ op = "begin" /\ ret = TRUE) => (mode = "Idle" /\ StopAccepted)

(* C7: performSelfTest, and performForcedRecalibration with a result pointer,  *)
(* request the result word no sooner than 500 ms after the operation's command *)
(* was first transmitted.                                                      *)
C7_ResultWait ==
  (op \in { "performSelfTest", "performForcedRecalibration" } /\ pc # "idle") =>
    \A i \in Requests : U32Ge(Elapsed(bus[i].t, bus[1].t), 500)

(* C8: a read request is issued only right after a command write that was     *)
(* acknowledged, and no sooner than 1 ms after it.                             *)
C8_SettleDelay ==
  \A i \in Requests :
    /\ i > 1
    /\ bus[i - 1].kind = "write"
    /\ bus[i - 1].ack
    /\ U32Ge(Elapsed(bus[i].t, bus[i - 1].t), 1)

\* readNData has issued its request exactly 1 ms after the command
C8_Witness ==
  /\ op = "readNData"
  /\ Len(bus) = 2
  /\ bus[2].kind = "request"
  /\ Elapsed(bus[2].t, bus[1].t) = U32(0, 1)

\* operations that receive response words
ReceivingOps ==
  ReadWordOps \cup { "readNData", "readMeasurement", "readSerialNumber",
                     "performForcedRecalibration", "begin" }

(* C9: an operation that receives response words does not fail for lack of     *)
(* data when all the bytes it asked for become available within 100 ms of the  *)
(* request.                                                                    *)
C9_ReadsPoll ==
  (Done /\ op \in ReceivingOps /\ Requests # {}
        /\ rx.arrives /\ rx.count = bus[Len(bus)].count /\ rx.lat <= 100) =>
    lowFail \cap { "nodata", "timeout" } = {}

RECURSIVE PolyMod(_, _)
\* remainder of the 24-bit polynomial r by x^8 + x^5 + x^4 + 1 (0x131) over GF(2),
\* by long division from bit k down to bit 8
PolyMod(r, k) ==
  IF k < 8 THEN r
  ELSE LET unit == 2 ^ (k - 8)
           win  == (r \div unit) % 512
       IN  IF win \div 256 = 1
             THEN PolyMod(r - win * unit + Xor(win, 305, 9) * unit, k - 1)
             ELSE PolyMod(r, k - 1)

\* CRC-8, polynomial 0x31, initial value 0xFF, MSB first, no final XOR, of the
\* message b0 b1: the initial value is added to the first byte, the message
\* is multiplied by x^8
RefCrc8(b0, b1) == PolyMod((Xor(b0, 255, 8) * 256 + b1) * 256, 23)

(* C10: crc8 is the CRC-8 with polynomial 0x31 and initial value 0xFF of its   *)
(* two bytes, a byte itself, and crc8(0xBE, 0xEF) = 0x92.                      *)
C10_CrcIsReference ==
  (Done /\ op = "crc8") =>
    /\ val[1].v = RefCrc8(arg.words[1], arg.words[2])
    /\ val[1].v \in Byte
    /\ arg.words = <<190, 239>> => val[1].v = 146

\* crc8(0xBE, 0xEF) came out as 0x92
C10_Witness == Done /\ op = "crc8" /\ arg.words = <<190, 239>> /\ val[1].v = 146

(* C11: a word encoded as [MSB, LSB, crc8(MSB, LSB)] decodes, by checkCrc and   *)
(* by the word loop of readNData, to the same word with success; with any one  *)
(* of the 24 bits of the group flipped both decoders reject it and write no    *)
(* word.                                                                       *)
C11_RoundTripAndFlips ==
  (Done /\ op = "checkCrc") =>
    IF arg.n = 0
      THEN /\ ret = TRUE
           /\ val = <<Written(arg.words[1])>>
           /\ lowFail = {}
           /\ out = <<Written(arg.words[1])>>
      ELSE /\ ret = FALSE
           /\ ~ val[1].w
           /\ "crc" \in lowFail
           /\ ~ out[1].w

\* 0xBEEF with the top bit of its CRC byte flipped (0x92 -> 0x12) was rejected
C11_Witness ==
  /\ Done
  /\ op = "checkCrc"
  /\ arg.words = <<48879>>
  /\ arg.n = 24
  /\ rx.data = <<190, 239, 18>>
  /\ ret = FALSE
  /\ "crc" \in lowFail

(* C12: readMeasurement returns true exactly when its command write was        *)
(* acknowledged, 9 bytes were available at its one availability test and the   *)
(* three groups read all carry a valid CRC; whenever it returns false none of  *)
(* co2_ppm, temp_c, rh_percent has been written.                               *)
C12_MeasurementAllOrNothing ==
  (Done /\ op = "readMeasurement") =>
    /\ ret = /\ bus[1].kind = "write"
             /\ bus[1].ack
             /\ Len(bus) = 2
             /\ bus[2].kind = "request"
             /\ AvailableAt(rx, bus[2].t) >= 9
             /\ GroupsValid(rx.data, 3)
    /\ ret = FALSE => \A i \in 1 .. 3 : ~ val[i].w
    /\ ret = TRUE => \A i \in 1 .. 3 : val[i].w

\* the CO2 word passed its CRC, a later word did not: false, and nothing written
C12_Witness ==
  /\ Done
  /\ op = "readMeasurement"
  /\ ret = FALSE
  /\ "crc" \in lowFail
  /\ Len(rx.data) = 9
  /\ GroupsValid(SubSeq(rx.data, 1, 3), 1)
  /\ ~ GroupsValid(rx.data, 3)
  /\ val = Slots(3)

(* C13: the word setTemperatureOffset transmits for degC, decoded as            *)
(* getTemperatureOffset decodes it, is within 175/65535 of degC, for degC in   *)
(* {-10, 0, 1.5, 20}. (arg.f is degC in 1/1000; both sides are scaled by       *)
(* 2 * 65535.)                                                                 *)
C13_OffsetRoundTrip ==
  (Done /\ op = "setTemperatureOffset") =>
    LET raw  == WordOf(SubSeq(BytesOf(1), 3, 5), 1)
        back == 2 * TempOffsetDegC(raw)
        orig == (arg.f * 65535) \div 500
    IN  /\ back - orig <= 2 * 175
        /\ orig - back <= 2 * 175

(* C14: a successful readSerialNumber returns (w0 << 32) | (w1 << 16) | w2 of   *)
(* the three words in the order received, as a 64-bit value below 2^48 (four   *)
(* 16-bit parts, the highest 0); 0x1234, 0x5678, 0x9ABC give 0x123456789ABC.   *)
C14_SerialAssembly ==
  (Done /\ op = "readSerialNumber" /\ ret = TRUE) =>
    /\ val[1].w
    /\ val[1].v = <<0, WordOf(rx.data, 1), WordOf(rx.data, 2), WordOf(rx.data, 3)>>
    /\ \A k \in 2 .. 4 : val[1].v[k] \in 0 .. 65535
    /\ SubSeq(rx.data, 1, 2) \o SubSeq(rx.data, 4, 5) \o SubSeq(rx.data, 7, 8)
           = <<18, 52, 86, 120, 154, 188>>
         => val[1].v = <<0, 4660, 22136, 39612>>

\* the words 0x1234, 0x5678, 0x9ABC were received and 0x123456789ABC returned
C14_Witness ==
  /\ Done
  /\ op = "readSerialNumber"
  /\ ret = TRUE
  /\ WordOf(rx.data, 1) = 4660
  /\ WordOf(rx.data, 2) = 22136
  /\ WordOf(rx.data, 3) = 39612
  /\ val[1].v = <<0, 4660, 22136, 39612>>

(* C15: a successful readMeasurement gives CO2 = word 1, temperature =          *)
(* -45 + 175 * word 2 / 65535 and humidity = 100 * word 3 / 65535 of the words *)
(* in the order received (temperature and humidity are held as 65535 times     *)
(* their value): the temperature is in [-45, 130], the humidity in [0, 100],   *)
(* and the raw words 0 and 65535 give the ends of these ranges.                *)
C15_MeasurementConversion ==
  (Done /\ op = "readMeasurement" /\ ret = TRUE) =>
    LET co2 == val[1].v
        t   == val[2].v
        rh  == val[3].v
    IN  /\ co2 = WordOf(rx.data, 1)
        /\ t = 175 * WordOf(rx.data, 2) - 45 * 65535
        /\ rh = 100 * WordOf(rx.data, 3)
        /\ t >= (0 - 45) * 65535 /\ t <= 130 * 65535
        /\ rh >= 0 /\ rh <= 100 * 65535
        /\ WordOf(rx.data, 2) = 0 => t = (0 - 45) * 65535
        /\ WordOf(rx.data, 2) = 65535 => t = 130 * 65535
        /\ WordOf(rx.data, 3) = 0 => rh = 0
        /\ WordOf(rx.data, 3) = 65535 => rh = 100 * 65535

\* the words 0x1234, 0xFFFF, 0x0000 came out as 4660 ppm, 130 degrees C, 0 percent
C15_Witness ==
  /\ Done
  /\ op = "readMeasurement"
  /\ ret = TRUE
  /\ rx.data = Group(4660) \o Group(65535) \o Group(0)
  /\ val = <<Written(4660), Written(130 * 65535), Written(0)>>

(* C16: a call of sendCommand or writeCommand makes exactly one write          *)
(* transaction and returns true exactly when the transport reported success    *)
(* for it; after a failed transmission nothing more goes onto the bus.         *)
C16_OneTransactionNoRetry ==
  (op \in { "sendCommand", "writeCommand" } /\ pc # "idle") =>
    /\ Len(bus) <= 1
    /\ Requests = {}
    /\ Done <=> Len(bus) = 1
    /\ Done => /\ bus[1].kind = "write"
               /\ ret = bus[1].ack
               /\ lowFail = Nack(bus[1].ack)

\* a sendCommand whose one transmission was not acknowledged has returned false
C16_Witness ==
  /\ Done
  /\ op = "sendCommand"
  /\ Len(bus) = 1
  /\ ~ bus[1].ack
  /\ ret = FALSE

(* C17: SCD40::enableAutomaticSelfCalibration(enable) makes one call into the  *)
(* Sensirion driver, the one that sets the ASC enabled flag, with the value of *)
(* enable (not the one that sets the ASC target), and returns true exactly     *)
(* when that call reports no error.                                            *)
C17_EnableAscSetsFlag ==
  (Done /\ op = "SCD40::enableAutomaticSelfCalibration") =>
    /\ Len(calls) = 1
    /\ calls[1].fn = "setAutomaticSelfCalibrationEnabled"
    /\ calls[1].arg = arg.f
    /\ ret = (calls[1].err = 0)

\* the getSerialNumber call SCD40::begin has made
BeginSerialCall == calls[2]

(* C18: SCD40::begin returns true exactly when its getSerialNumber call        *)
(* reported no error and delivered 0x1019EB073B70; stopPeriodicMeasurement is  *)
(* called exactly in that case, after the serial number was read.              *)
C18_BeginVerifiesSerial ==
  (Done /\ op = "SCD40::begin") =>
    /\ calls[1].fn = "begin" /\ calls[1].arg = 98
    /\ BeginSerialCall.fn = "getSerialNumber"
    /\ ret = (BeginSerialCall.err = 0 /\ BeginSerialCall.out = <<0, 4121, 60167, 15216>>)
    /\ ret = TRUE => /\ Len(calls) = 3
                     /\ calls[3].fn = "stopPeriodicMeasurement"
    /\ ret = FALSE => /\ Len(calls) = 2
                      /\ \A i \in 1 .. Len(calls) : calls[i].fn # "stopPeriodicMeasurement"

\* a sensor whose serial number differs from the expected one in its highest
\* word only was read without error: false, and no stop
C18_Witness ==
  /\ Done
  /\ op = "SCD40::begin"
  /\ BeginSerialCall.err = 0
  /\ BeginSerialCall.out = <<0, 4120, 60167, 15216>>
  /\ ret = FALSE
  /\ Len(calls) = 2

\* the command of write transaction i
CmdOf(i) == BytesOf(i)[1] * 256 + BytesOf(i)[2]

\* wake-up, re-init, stop-periodic-measurement, get-serial-number
BeginCommands == <<14070, 13894, 16262, 13954>>

C20_ReadNDataWords ==
  (op = "readNData" /\ pc # "idle") =>
    /\ Cardinality(Requests) <= 1
    /\ \A i \in Requests : bus[i].count = 3 * arg.n /\ bus[i].addr = address
    /\ (Done /\ ret = TRUE) =>
         /\ Requests # {}
         /\ GroupsValid(rx.data, arg.n)
         /\ Len(out) = arg.n
         /\ \A i \in 1 .. arg.n :
              out[i] = Written(rx.data[3 * i - 2] * 256 + rx.data[3 * i - 1])

\* a two-word read of 12 34 crc 56 78 crc has returned 0x1234, 0x5678
C20_Witness ==
  /\ Done
  /\ op = "readNData"
  /\ arg.n = 2
  /\ ret = TRUE
  /\ bus[2].count = 6
  /\ SubSeq(rx.data, 1, 2) = <<18, 52>>
  /\ SubSeq(rx.data, 4, 5) = <<86, 120>>
  /\ out = <<Written(4660), Written(22136)>>

\* what readNData hands back to its caller: its return value and the buffer
ReadOutcome == [ret |-> ret, out |-> out]

\* the outcomes an n-word readNData can hand back after a CRC mismatch
CrcFailOutcomes(n) ==
  { [ret |-> FALSE, out |-> ReadLoop(resp, Slots(n), 1, n).out] :
      resp \in { r \in Responses(n) : ~ ReadLoop(r, Slots(n), 1, n).ok } }

(* C21: a readNData that fails by timeout hands back an outcome that no        *)
(* readNData failing by CRC mismatch hands back: the caller can tell the two   *)
(* causes apart.                                                               *)
C21_FailuresDistinct ==
  (Done /\ op = "readNData" /\ "timeout" \in lowFail) =>
    ReadOutcome \notin CrcFailOutcomes(arg.n)

\* the calls SCD40::readSingleShot makes into the Sensirion driver, in order
SingleShotCalls == <<"wakeUp", "measureSingleShot", "measureAndReadSingleShot">>

(* C22: SCD40::readSingleShot calls wakeUp, measureSingleShot and              *)
(* measureAndReadSingleShot in this order, makes no call after one that        *)
(* reported a non-zero error, and returns true exactly when all three reported *)
(* zero; its output arguments hold nothing but what the third call stored.     *)
C22_SingleShotSequence ==
  (op = "SCD40::readSingleShot" /\ pc # "idle") =>
    /\ Len(calls) <= 3
    /\ \A i \in 1 .. Len(calls) :
         /\ calls[i].fn = SingleShotCalls[i]
         /\ i < Len(calls) => calls[i].err = 0
    /\ Done => /\ Len(calls) >= 1
               /\ Len(calls) < 3 => calls[Len(calls)].err # 0
               /\ ret = (Len(calls) = 3 /\ \A i \in 1 .. 3 : calls[i].err = 0)
    /\ IF Len(calls) = 3 /\ calls[3].out # << >>
         THEN val = [i \in 1 .. 3 |-> Written(calls[3].out[i])]
         ELSE val = Slots(3)

\* measureSingleShot reported an error: no third call, false, outputs untouched
C22_Witness ==
  /\ Done
  /\ op = "SCD40::readSingleShot"
  /\ Len(calls) = 2
  /\ calls[1].err = 0
  /\ calls[2].err # 0
  /\ ret = FALSE
  /\ val = Slots(3)

(* C23: every bus transaction of a call begin(i2cAddr, ...) is addressed to    *)
(* i2cAddr, the wake-up and the re-init at its start included.                 *)
C23_BeginUsesItsAddress ==
  (op = "begin" /\ pc # "idle") =>
    \A i \in 1 .. Len(bus) : bus[i].addr = arg.addr

\* the write transactions of the running call that carry the forced-recalibration
\* opcode 0x362F
FrcWrites == { i \in 1 .. Len(bus) : bus[i].kind = "write" /\ CmdOf(i) = 13871 }

(* C24: performForcedRecalibration with a result pointer transmits the forced- *)
(* recalibration command once, with the reference word and its CRC, and no     *)
(* second write carrying that opcode precedes the read request.                *)
C24_FrcCommandOnce ==
  (op = "performForcedRecalibration" /\ arg.want /\ pc # "idle") =>
    /\ Cardinality(FrcWrites) <= 1
    /\ \A i \in FrcWrites : BytesOf(i) = txCommand(13871, arg.words)

\* the read-type operations
ReadTypeOps == { "readNData", "readMeasurement", "readSerialNumber" }

(* C25: a read-type operation whose command write is not acknowledged returns  *)
(* false at once: it makes no read request, takes no byte from the transport   *)
(* and leaves its output arguments as they were, and no time passes between    *)
(* the write and the return.                                                   *)
C25_NackEndsRead ==
  (op \in ReadTypeOps /\ Len(bus) >= 1 /\ ~ bus[1].ack) =>
    /\ Done
    /\ ret = FALSE
    /\ Len(bus) = 1
    /\ Requests = {}
    /\ rx = NoRx
    /\ val = OutArgs(op, arg)
    /\ \A i \in 1 .. Len(out) : ~ out[i].w
    /\ clock = bus[1].t

\* readMeasurement's command was not acknowledged: false, nothing requested
C25_Witness ==
  /\ Done
  /\ op = "readMeasurement"
  /\ Len(bus) = 1
  /\ ~ bus[1].ack
  /\ ret = FALSE
  /\ val = Slots(3)

\* the millisecond counter has wrapped through 2^32 since t0 was sampled
WrappedSinceT0 == t0[1] = 65535 /\ clock[1] = 0

(* C26: the timeout test of readNData's poll loop is right across the wrap of  *)
(* the 32-bit millisecond counter: a timeout is returned only when more than   *)
(* 100 ms have really passed since t0 was sampled, and once more than 100 ms   *)
(* have passed the loop does not wait again.                                   *)
C26_TimeoutAcrossWrap ==
  /\ [](TimedOutReturn => waited > 100)
  /\ [](pc = "rnd_poll" => (waited > 100 <=> U32Gt(Elapsed(clock, t0), 100)))
  /\ [][(pc = "rnd_poll" /\ waited > 100) => pc' = "done"]_vars

\* t0 was sampled less than 100 ms before the counter wrapped, and the timeout
\* came 101 ms later, after the wrap
C26_Witness ==
  /\ TimedOutReturn
  /\ WrappedSinceT0
  /\ waited = 101

====
